---- MODULE Spec2Model ----
(***************************************************************************)
(* Model of the lodge parser generator (src/src/parser):                   *)
(*   ordered_set.py      OrderedSet, modelled as a duplicate-free sequence *)
(*   grammar/grammar.py  Grammar: _read_file, FIRST and FOLLOW sets        *)
(*   parser/table.py     StateItem, State (closure, goto), ParseTable      *)
(*   parser/parser.py    Parser.__call__, the shift/reduce stack machine   *)
(*                                                                         *)
(* A behaviour is one run of the program on one grammar file: the FIRST /  *)
(* FOLLOW computation of Grammar.__init__ is run call by call on an        *)
(* explicit call stack, ParseTable.__init__ builds the table, and then     *)
(* either Parser.__call__ is run step by step on one input, or two State   *)
(* objects are constructed from one item set.                              *)
(* SpecConcurrent adds a second invocation of Parser.__call__ on the same  *)
(* table, interleaved with the first; SpecReduce runs the reduce step of   *)
(* parser.py lines 43-52 on stacks and reduce actions drawn from bounded   *)
(* sets.                                                                   *)
(*                                                                         *)
(* Symbols are strings.  "ε" is the epsilon marker of the source and       *)
(* "epsilon" is the other literal that grammar.py line 179 uses.           *)
(***************************************************************************)
EXTENDS Integers, Sequences, FiniteSets, TLC

VARIABLES
    grammar,       \* Grammar fields set by _read_file
    first_sets,    \* Grammar.first_sets  : dict symbol -> OrderedSet
    follow_sets,   \* Grammar.follow_sets : dict symbol -> OrderedSet
    calls,         \* call stack of the FIRST/FOLLOW computation, top last
    ret,           \* value returned by the call that returned last
    phase,         \* position of the program
    states,        \* ParseTable.states
    state_ids,     \* ParseTable.state_ids, in insertion order: state_ids[k+1] has id k
    goto_table,    \* ParseTable.goto_table
    action_table,  \* ParseTable.action_table
    input,         \* the argument of Parser.__call__
    string,        \* Parser.__call__ local: the unconsumed input
    stack,         \* Parser.__call__ local: the parse stack, top last
    result,        \* the value Parser.__call__ returned
    trail,         \* the configurations (state ids on the stack, unconsumed input)
                   \* this call of Parser.__call__ has been in
    args,          \* the item lists two State objects are constructed from
    stA, stB,      \* the two State objects
    parked         \* a second invocation of Parser.__call__ on the same Parser, not
                   \* running now: its place, argument, locals and result

vars == <<grammar, first_sets, follow_sets, calls, ret, phase, states, state_ids,
          goto_table, action_table, input, string, stack, result, trail, args, stA, stB,
          parked>>

(***************************************************************************)
(* Bounds                                                                  *)
(***************************************************************************)
MaxInputLen == 3

(***************************************************************************)
(* OrderedSet (ordered_set.py): a dict used as an insertion-ordered set.   *)
(***************************************************************************)
\* the element of a one-element set. TLC evaluates the arguments of an operator
\* on demand; a loop hands its accumulator on as {Loop(a, ...) : a \in {next}},
\* which evaluates next once, before the next round
Strict(S) == CHOOSE x \in S : TRUE

Contains(s, e) == \E i \in DOMAIN s : s[i] = e

OrderedSetAdd(s, e) == IF Contains(s, e) THEN s ELSE Append(s, e)

RECURSIVE OrderedSetUpdate(_, _)
OrderedSetUpdate(s, iterable) ==
    IF iterable = <<>> THEN s
    ELSE LET added == OrderedSetAdd(s, Head(iterable))
         IN  Strict({OrderedSetUpdate(a, rest) : <<a, rest>> \in {<<added, Tail(iterable)>>}})

OrderedSet(iterable) == OrderedSetUpdate(<<>>, iterable)

OrderedSetUnion(s, other) == OrderedSetUpdate(OrderedSet(s), other)

OrderedSetDifference(s, other) == SelectSeq(s, LAMBDA e : ~Contains(other, e))

OrderedSetEq(s, t) == s = t

Elems(s) == {s[i] : i \in DOMAIN s}

(***************************************************************************)
(* Grammar files.  A line "head -> b1 b2 ..." is given already split, as   *)
(* _read_file splits it; re.split never yields an empty body.              *)
(***************************************************************************)
Rule(h, b) == [head |-> h, body |-> b]

ExprGrammar ==
    << Rule("S", <<"E">>), Rule("E", <<"E", "+", "T">>),
       Rule("E", <<"T">>), Rule("T", <<"id">>) >>

GrammarFiles ==
    { ExprGrammar,
      << Rule("S", <<"a", "b">>) >>,
      << Rule("S", <<"B">>), Rule("B", <<"A", "b">>),
         Rule("A", <<"ε">>), Rule("A", <<"a">>) >>,
      << Rule("S", <<"A">>), Rule("A", <<"X", "a", "X", "b">>),
         Rule("X", <<"x">>) >>,
      << Rule("S", <<"A">>), Rule("A", <<"B">>), Rule("A", <<"a">>),
         Rule("B", <<"A">>), Rule("B", <<"b">>) >>,
      << Rule("S", <<"A">>), Rule("A", <<"B", "x">>), Rule("A", <<"a">>),
         Rule("B", <<"A", "y">>), Rule("B", <<"b">>) >>,
      << Rule("S", <<"A">>), Rule("A", <<"a">>), Rule("U", <<"A">>) >>,
      << Rule("S", <<"A">>), Rule("A", <<"a">>), Rule("U", <<"u">>) >>,
      << Rule("AB", <<"b", "A">>), Rule("A", <<"a">>) >>,
      << Rule("S", <<"E">>), Rule("E", <<"u", "C">>), Rule("E", <<"u", "D">>),
         Rule("E", <<"v", "D">>), Rule("E", <<"v", "C">>),
         Rule("C", <<"c">>), Rule("D", <<"c">>) >> }

RECURSIVE Concat(_)
Concat(ss) == IF ss = <<>> THEN <<>> ELSE Head(ss) \o Concat(Tail(ss))

\* rule_head_map[h] after every _add_rule: the rules headed by h, in file order
RulesWithHead(rules, h) ==
    SelectSeq([i \in DOMAIN rules |-> i], LAMBDA i : rules[i].head = h)

\* rule_body_map[t] after every _add_rule: the rules with t in the body
RulesWithBodyToken(rules, t) ==
    SelectSeq([i \in DOMAIN rules |-> i], LAMBDA i : Contains(rules[i].body, t))

\* ReadFile without line 87, terminals -= nonterminals
ReadFileKeepsHeads(lines) ==
    LET heads  == [i \in DOMAIN lines |-> lines[i].head]
        bodies == Concat([i \in DOMAIN lines |-> lines[i].body])
        nonterminals == OrderedSet(heads)
        terminals == OrderedSetUpdate(<<"$">>, bodies)
    IN  [ rules |-> lines,
          start_symbol |-> lines[1].head,
          rule_head_map |-> [h \in Elems(heads) |->
                               RulesWithHead(lines, h)],
          rule_body_map |-> [t \in Elems(bodies) |->
                               RulesWithBodyToken(lines, t)],
          nonterminals |-> nonterminals,
          terminals |-> terminals ]

\* Grammar._read_file on the rule lines of a file, each split into head and body
ReadFile(lines) ==
    LET heads  == [i \in DOMAIN lines |-> lines[i].head]
        bodies == Concat([i \in DOMAIN lines |-> lines[i].body])
        nonterminals == OrderedSet(heads)
        terminals == OrderedSetDifference(OrderedSetUpdate(<<"$">>, bodies), nonterminals)
    IN  [ rules |-> lines,
          start_symbol |-> lines[1].head,
          rule_head_map |-> [h \in Elems(heads) |->
                               RulesWithHead(lines, h)],
          rule_body_map |-> [t \in Elems(bodies) |->
                               RulesWithBodyToken(lines, t)],
          nonterminals |-> nonterminals,
          terminals |-> terminals ]

GetRulesByHead(nonterminal) ==
    LET idx == grammar.rule_head_map[nonterminal]
    IN  [k \in DOMAIN idx |-> grammar.rules[idx[k]]]

GetRulesByBodyToken(token) ==
    LET idx == grammar.rule_body_map[token]
    IN  [k \in DOMAIN idx |-> grammar.rules[idx[k]]]

IsTerminal(token) == Contains(grammar.terminals, token)

(***************************************************************************)
(* The FIRST/FOLLOW computation (grammar.py 107-186) on an explicit call   *)
(* stack.  A frame holds the arguments and locals of one call; pc is the   *)
(* place the call resumes at.                                              *)
(***************************************************************************)
Frame(fn, token, toks, explored) ==
    [ fn |-> fn, pc |-> "start", token |-> token, toks |-> toks,
      explored |-> explored, rules |-> <<>>, ri |-> 1, bi |-> 1, i |-> 0,
      acc |-> <<>>, cur |-> <<>> ]

Top == calls[Len(calls)]

Below == SubSeq(calls, 1, Len(calls) - 1)

\* the running call keeps going with its locals changed
Goes(f) == calls' = Append(Below, f) /\ ret' = ret

\* the running call calls g and will resume as f
Call(f, g) == calls' = Append(Append(Below, f), g) /\ ret' = ret

\* the running call returns v
Return(v) == calls' = Below /\ ret' = v

\* the characters of a symbol name; the names of GrammarFiles other than "AB"
\* and "id" are one character long
Chars(s) == CASE s = "AB" -> <<"A", "B">>
              [] s = "id" -> <<"i", "d">>
              [] OTHER -> <<s>>

\* OrderedSet(self.start_symbol) iterates over the characters of the name
OrderedSetOfString(s) == OrderedSet(Chars(s))

TableVars == <<states, state_ids, goto_table, action_table>>
ParseVars == <<input, string, stack, result, trail, parked>>
StateVars == <<args, stA, stB>>

\* _populate_first_and_follow_sets.in_order_traverse(token, visited); the frame's
\* explored field holds visited
TraverseStep ==
    /\ phase = "ff" /\ Top.fn = "traverse"
    /\ LET f == Top IN
       CASE f.pc = "start" ->
              /\ IF IsTerminal(f.token)
                 THEN Return(ret)
                 ELSE Goes([f EXCEPT !.pc = "loop", !.rules = GetRulesByHead(f.token)])
              /\ UNCHANGED <<first_sets, follow_sets, phase>>
         [] f.pc = "loop" ->
              /\ IF f.ri > Len(f.rules)
                 THEN Call([f EXCEPT !.pc = "gotFirst"], Frame("first", f.token, <<>>, <<>>))
                 ELSE IF f.bi > Len(f.rules[f.ri].body)
                 THEN Goes([f EXCEPT !.ri = f.ri + 1, !.bi = 1])
                 ELSE LET rule_body_token == f.rules[f.ri].body[f.bi]
                          g == [f EXCEPT !.bi = f.bi + 1]
                      IN  IF ~Contains(f.explored, rule_body_token)
                          THEN Call(g, Frame("traverse", rule_body_token, <<>>,
                                       OrderedSetUnion(f.explored, <<rule_body_token>>)))
                          ELSE Goes(g)
              /\ UNCHANGED <<first_sets, follow_sets, phase>>
         [] f.pc = "gotFirst" ->
              /\ first_sets' = (f.token :> ret) @@ first_sets
              /\ Call([f EXCEPT !.pc = "gotFollow"], Frame("follow", f.token, <<>>, <<>>))
              /\ UNCHANGED <<follow_sets, phase>>
         [] f.pc = "gotFollow" ->
              /\ follow_sets' = (f.token :> ret) @@ follow_sets
              /\ Return(ret)
              /\ phase' = IF Below = <<>> THEN "ffdone" ELSE phase
              /\ UNCHANGED first_sets
    /\ UNCHANGED <<grammar, TableVars, ParseVars, StateVars>>

\* _find_first_set(token, explored_tokens)
FirstStep ==
    /\ phase = "ff" /\ Top.fn = "first"
    /\ LET f == Top IN
       CASE f.pc = "start" ->
              IF IsTerminal(f.token) THEN Return(OrderedSet(<<f.token>>))
              ELSE IF f.token \in DOMAIN first_sets THEN Return(first_sets[f.token])
              ELSE Goes([f EXCEPT !.pc = "loop", !.rules = GetRulesByHead(f.token)])
         [] f.pc = "loop" ->
              IF f.ri > Len(f.rules) THEN Return(f.acc)
              ELSE Call([f EXCEPT !.pc = "gotList"],
                        Frame("list", "", f.rules[f.ri].body, f.explored))
         [] f.pc = "gotList" ->
              Goes([f EXCEPT !.pc = "loop", !.ri = f.ri + 1,
                             !.acc = OrderedSetUpdate(f.acc, ret)])
    /\ UNCHANGED <<grammar, first_sets, follow_sets, phase, TableVars, ParseVars, StateVars>>

\* list.index(token): the first position of token, 1-based here
Index(body, token) == CHOOSE k \in DOMAIN body :
                         body[k] = token /\ \A j \in 1..(k - 1) : body[j] # token

\* _find_follow_set(token, explored_tokens)
FollowStep ==
    /\ phase = "ff" /\ Top.fn = "follow"
    /\ LET f == Top IN
       CASE f.pc = "start" ->
              IF f.token = grammar.start_symbol
              THEN /\ follow_sets' = (f.token :> OrderedSet(<<"$">>)) @@ follow_sets
                   /\ Return(OrderedSet(<<"$">>))
                   /\ UNCHANGED phase
              ELSE IF f.token \in DOMAIN follow_sets
              THEN Return(follow_sets[f.token]) /\ UNCHANGED <<follow_sets, phase>>
              ELSE IF f.token \notin DOMAIN grammar.rule_body_map
              THEN \* get_rules_by_body_token raises KeyError
                   phase' = "ffcrash" /\ UNCHANGED <<follow_sets, calls, ret>>
              ELSE /\ Goes([f EXCEPT !.pc = "loop", !.rules = GetRulesByBodyToken(f.token)])
                   /\ UNCHANGED <<follow_sets, phase>>
         [] f.pc = "loop" ->
              /\ IF f.ri > Len(f.rules) THEN Return(f.acc)
                 ELSE LET rule == f.rules[f.ri] IN
                      IF ~Contains(rule.body, f.token)
                      THEN Goes([f EXCEPT !.ri = f.ri + 1])
                      ELSE LET token_index == Index(rule.body, f.token) IN
                           Call([f EXCEPT !.pc = "gotRest"],
                                Frame("list", "",
                                      SubSeq(rule.body, token_index + 1, Len(rule.body)), <<>>))
              /\ UNCHANGED <<follow_sets, phase>>
         [] f.pc = "gotRest" ->
              /\ LET first_in_rest == ret
                     rule == f.rules[f.ri]
                     g == [f EXCEPT !.acc = OrderedSetUpdate(f.acc,
                                       OrderedSetDifference(first_in_rest, <<"ε">>))]
                 IN  IF Contains(first_in_rest, "ε") /\ ~Contains(f.explored, rule.head)
                     THEN Call([g EXCEPT !.pc = "gotHead"],
                               Frame("follow", rule.head, <<>>, Append(f.explored, rule.head)))
                     ELSE Goes([g EXCEPT !.pc = "loop", !.ri = f.ri + 1])
              /\ UNCHANGED <<follow_sets, phase>>
         [] f.pc = "gotHead" ->
              /\ Goes([f EXCEPT !.pc = "loop", !.ri = f.ri + 1,
                                !.acc = OrderedSetUpdate(f.acc, ret)])
              /\ UNCHANGED <<follow_sets, phase>>
    /\ UNCHANGED <<grammar, first_sets, TableVars, ParseVars, StateVars>>

\* the set subtracted from each symbol's FIRST set at grammar.py line 179
Subtracted == <<"epsilon">>

\* the end of _find_first_from_nonterminal_list (lines 183-186), i is Python's index
ListResult(f, i) ==
    IF i = Len(f.toks) - 1 /\ Contains(f.cur, "ε")
    THEN OrderedSetAdd(f.acc, "ε") ELSE f.acc

\* _find_first_from_nonterminal_list(token_list, explored_tokens)
ListStep ==
    /\ phase = "ff" /\ Top.fn = "list"
    /\ LET f == Top IN
       CASE f.pc = "start" ->
              IF Len(f.toks) = 0 THEN Return(OrderedSet(<<"ε">>))
              ELSE Goes([f EXCEPT !.pc = "loop"])
         [] f.pc = "loop" ->
              IF f.bi > Len(f.toks) THEN Return(ListResult(f, f.i))
              ELSE LET body_token == f.toks[f.bi]
                       g == [f EXCEPT !.i = f.bi - 1]
                   IN  IF Contains(f.explored, body_token)
                       THEN Return(ListResult(g, g.i))
                       ELSE Call([g EXCEPT !.pc = "gotFirst"],
                                 Frame("first", body_token, <<>>,
                                       Append(f.explored, body_token)))
         [] f.pc = "gotFirst" ->
              LET g == [f EXCEPT !.cur = ret,
                                 !.acc = OrderedSetUpdate(f.acc,
                                            OrderedSetDifference(ret, Subtracted))]
              IN  IF ~Contains(ret, "ε")
                  THEN Return(ListResult(g, g.i))
                  ELSE Goes([g EXCEPT !.pc = "loop", !.bi = f.bi + 1])
    /\ UNCHANGED <<grammar, first_sets, follow_sets, phase, TableVars, ParseVars, StateVars>>

(***************************************************************************)
(* StateItem, State and ParseTable (table.py).  A State is modelled by its *)
(* items attribute, an OrderedSet of StateItems.                           *)
(***************************************************************************)
StateItem(rule, follow, position) ==
    [head |-> rule.head, body |-> rule.body, follow |-> follow, position |-> position]

\* the mark of a State whose construction was left by the KeyError of line 82:
\* an item no rule gives, last in the items
KeyError == [head |-> "KeyError", body |-> <<>>, follow |-> <<>>, position |-> 0]

HasRaised(items) == items # <<>> /\ items[Len(items)] = KeyError

RECURSIVE CloseHelper(_, _, _)
RECURSIVE CloseRules(_, _, _, _)
RECURSIVE CloseRulesShallow(_, _, _, _)

\* CloseRules without the recursive call of line 89
CloseRulesShallow(items, rules, follow_set, visited) ==
    IF rules = <<>> THEN items
    ELSE Strict({CloseRulesShallow(a, rest, follow_set, visited) :
                   <<a, rest>> \in {<<OrderedSetAdd(items, StateItem(Head(rules), follow_set, 0)),
                                      Tail(rules)>>}})

\* the loop of State._close_helper over the rules headed by next_token
CloseRules(items, rules, follow_set, visited) ==
    IF rules = <<>> \/ HasRaised(items) THEN items
    ELSE LET new_item == StateItem(Head(rules), follow_set, 0)
             added == OrderedSetAdd(items, new_item)
             closed == IF ~Contains(visited, new_item)
                       THEN CloseHelper(added, new_item, Append(visited, new_item))
                       ELSE added
         IN  Strict({CloseRules(a, rest, follow_set, visited) :
                   <<a, rest>> \in {<<closed, Tail(rules)>>}})

\* State._close_helper(item, visited); items is self.items, which it returns changed
CloseHelper(items, item, visited) ==
    LET next_token == item.body[item.position + 1]
    IN  IF IsTerminal(next_token) THEN items
        ELSE IF next_token \notin DOMAIN follow_sets THEN Append(items, KeyError)
        ELSE CloseRules(items, GetRulesByHead(next_token), follow_sets[next_token], visited)

RECURSIVE CloseSeeds(_, _)
\* the loop of State.__init__ over list(self.items)
CloseSeeds(items, seeds) ==
    IF seeds = <<>> \/ HasRaised(items) THEN items
    ELSE LET item == Head(seeds)
             closed == IF item.position < Len(item.body)
                       THEN CloseHelper(items, item, <<>>) ELSE items
         IN  Strict({CloseSeeds(a, rest) : <<a, rest>> \in {<<closed, Tail(seeds)>>}})

\* State.__init__(grammar, *items)
State(items) == CloseSeeds(OrderedSet(items), OrderedSet(items))

\* State.get_transition_result(token)
GetTransitionResult(state, token) ==
    LET matching == SelectSeq(state, LAMBDA item :
                       item.position < Len(item.body) /\ item.body[item.position + 1] = token)
    IN  State([k \in DOMAIN matching |->
                 StateItem(matching[k], matching[k].follow, matching[k].position + 1)])

\* State.__eq__: the items compared as lists
StateEq(s, t) == OrderedSetEq(s, t)

RECURSIVE Xor(_, _)
\* a ^ b on non-negative integers
Xor(a, b) ==
    IF a = 0 THEN b
    ELSE IF b = 0 THEN a
    ELSE (((a % 2) + (b % 2)) % 2) + 2 * Xor(a \div 2, b \div 2)

\* hash(str): fixed by the interpreter for the run; the position of the
\* symbol among the grammar's symbols stands for it
StrHash(symbol) ==
    LET symbols == OrderedSetUnion(grammar.terminals, grammar.nonterminals)
    IN  IF Contains(symbols, symbol)
        THEN CHOOSE k \in DOMAIN symbols : symbols[k] = symbol
        ELSE 0

RECURSIVE TupleHash(_)
\* hash(tuple of str): a function of the elements and their order
TupleHash(tuple) ==
    IF tuple = <<>> THEN 1
    ELSE (31 * TupleHash(Tail(tuple)) + StrHash(Head(tuple))) % 65536

\* StateItem.__hash__
ItemHash(item) ==
    Xor(Xor(Xor(StrHash(item.head), TupleHash(item.body)), item.position),
        TupleHash(item.follow))

RECURSIVE StateHash(_)
\* State.__hash__
StateHash(state) ==
    IF state = <<>> THEN 0
    ELSE Xor(StateHash(SubSeq(state, 1, Len(state) - 1)), ItemHash(state[Len(state)]))

\* new_state in self.state_ids.keys()
HasId(ids, state) == \E k \in DOMAIN ids : StateEq(ids[k], state)

\* self.state_ids[state]
IdOf(ids, state) == (CHOOSE k \in DOMAIN ids : StateEq(ids[k], state)) - 1

RECURSIVE ExploreTokens(_, _, _)
\* the for loop of _generate_table (lines 174-184); t holds stack, state_ids and
\* goto_table, and raised once an exception has left the loops
ExploreTokens(t, current_state, tokens) ==
    IF tokens = <<>> \/ t.raised THEN t
    ELSE LET token == Head(tokens)
             new_state == GetTransitionResult(current_state, token)
             known == HasId(t.state_ids, new_state)
             ids == IF known THEN t.state_ids ELSE Append(t.state_ids, new_state)
             u == [t EXCEPT !.stack = IF known THEN @ ELSE Append(@, new_state),
                            !.state_ids = ids,
                            !.goto_table = (<<IdOf(ids, current_state), token>>
                                              :> IdOf(ids, new_state)) @@ @]
             v == IF HasRaised(new_state) THEN [t EXCEPT !.raised = TRUE]
                  ELSE IF Len(new_state) = 0 THEN t ELSE u
         IN  Strict({ExploreTokens(a, current_state, rest) :
                   <<a, rest>> \in {<<v, Tail(tokens)>>}})

RECURSIVE ExploreLastIn(_)
\* Explore with stack.pop() for stack.pop(0): the state discovered last is
\* explored first
ExploreLastIn(t) ==
    IF Len(t.stack) = 0 \/ t.raised THEN t
    ELSE LET current_state == t.stack[Len(t.stack)]
             u == [t EXCEPT !.stack = SubSeq(@, 1, Len(@) - 1),
                            !.states = Append(@, current_state)]
             v == ExploreTokens(u, current_state,
                     OrderedSetUnion(grammar.terminals, grammar.nonterminals))
         IN  Strict({ExploreLastIn(a) : a \in {v}})

RECURSIVE Explore(_)
\* the while loop of _generate_table (lines 170-184)
Explore(t) ==
    IF Len(t.stack) = 0 \/ t.raised THEN t
    ELSE LET current_state == Head(t.stack)
             u == [t EXCEPT !.stack = Tail(@), !.states = Append(@, current_state)]
             v == ExploreTokens(u, current_state,
                     OrderedSetUnion(grammar.terminals, grammar.nonterminals))
         IN  Strict({Explore(a) : a \in {v}})

RECURSIVE WriteAll(_, _, _, _)
\* action_table[(id, follow)] = value for every follow of follows
WriteAll(table, id, follows, value) ==
    IF follows = <<>> THEN table
    ELSE LET written == (<<id, Head(follows)>> :> value) @@ table
         IN  Strict({WriteAll(a, id, rest, value) :
                   <<a, rest>> \in {<<written, Tail(follows)>>}})

\* ItemAction with shifts recorded for terminals only
ItemActionTerminalShifts(table, gotos, id, item) ==
    IF item.position = Len(item.body)
    THEN IF item.head = grammar.start_symbol
         THEN (<<id, "$">> :> <<"acc">>) @@ table
         ELSE WriteAll(table, id, item.follow, <<"red", item.head, Len(item.body)>>)
    ELSE IF /\ <<id, item.body[item.position + 1]>> \in DOMAIN gotos
            /\ IsTerminal(item.body[item.position + 1])
         THEN (<<id, item.body[item.position + 1]>>
                 :> <<"shft", gotos[<<id, item.body[item.position + 1]>>]>>) @@ table
         ELSE table

\* ItemAction with an entry that is there kept: the first writer of a key wins
ItemActionKeepsFirst(table, gotos, id, item) ==
    table @@
    (IF item.position = Len(item.body)
     THEN IF item.head = grammar.start_symbol
          THEN (<<id, "$">> :> <<"acc">>)
          ELSE WriteAll(<<>>, id, item.follow, <<"red", item.head, Len(item.body)>>)
     ELSE IF <<id, item.body[item.position + 1]>> \in DOMAIN gotos
          THEN (<<id, item.body[item.position + 1]>>
                  :> <<"shft", gotos[<<id, item.body[item.position + 1]>>]>>)
          ELSE <<>>)

\* what one item of state id writes to the action table (lines 189-200)
ItemAction(table, gotos, id, item) ==
    IF item.position = Len(item.body)
    THEN IF item.head = grammar.start_symbol
         THEN (<<id, "$">> :> <<"acc">>) @@ table
         ELSE WriteAll(table, id, item.follow, <<"red", item.head, Len(item.body)>>)
    ELSE IF <<id, item.body[item.position + 1]>> \in DOMAIN gotos
         THEN (<<id, item.body[item.position + 1]>>
                 :> <<"shft", gotos[<<id, item.body[item.position + 1]>>]>>) @@ table
         ELSE table

RECURSIVE ItemActions(_, _, _, _)
ItemActions(table, gotos, id, items) ==
    IF items = <<>> THEN table
    ELSE LET written == ItemAction(table, gotos, id, Head(items))
         IN  Strict({ItemActions(a, gotos, id, rest) :
                   <<a, rest>> \in {<<written, Tail(items)>>}})

RECURSIVE StateActions(_, _, _, _)
\* the loop over self.state_ids.items() (lines 187-200), from id on
StateActions(table, gotos, ids, id) ==
    IF id >= Len(ids) THEN table
    ELSE LET written == ItemActions(table, gotos, id, ids[id + 1])
         IN  Strict({StateActions(a, gotos, ids, id + 1) : a \in {written}})

\* ParseTable._generate_table
GenerateTable ==
    LET start == grammar.start_symbol
        start_item == StateItem(GetRulesByHead(start)[1], follow_sets[start], 0)
        current_state == State(<<start_item>>)
        begun == [stack |-> <<current_state>>, states |-> <<>>,
                  state_ids |-> <<current_state>>, goto_table |-> <<>>,
                  raised |-> HasRaised(current_state)]
    IN  Strict({ [ states |-> t.states, state_ids |-> t.state_ids,
                   goto_table |-> t.goto_table, raised |-> t.raised,
                   action_table |-> IF t.raised THEN <<>>
                                    ELSE StateActions(<<>>, t.goto_table, t.state_ids, 0) ] :
                 t \in {Explore(begun)} })

\* ParseTable.__init__, called by Parser.__init__; an exception leaves both, and
\* no Parser exists
BuildTable ==
    /\ phase = "ffdone"
    /\ \E t \in {GenerateTable} :
           IF t.raised
           THEN phase' = "tablecrash" /\ UNCHANGED TableVars
           ELSE /\ states' = t.states
                /\ state_ids' = t.state_ids
                /\ goto_table' = t.goto_table
                /\ action_table' = t.action_table
                /\ phase' = "ready"
    /\ UNCHANGED <<grammar, first_sets, follow_sets, calls, ret, ParseVars, StateVars>>

\* lst with the elements at i and j exchanged
Swap(lst, i, j) ==
    [k \in DOMAIN lst |-> IF k = i THEN lst[j] ELSE IF k = j THEN lst[i] ELSE lst[k]]

\* the item lists a State is constructed from: the items of a discovered state,
\* or two of them
ItemLists ==
    UNION { {states[k]} \cup { <<states[k][i], states[k][j]>> :
                                 i \in DOMAIN states[k], j \in DOMAIN states[k] } :
            k \in DOMAIN states }

\* State(grammar, *items) called twice, on one item list in two orders
ConstructStates ==
    /\ phase = "ready"
    /\ \E items \in ItemLists : \E i \in DOMAIN items : \E j \in i..Len(items) :
           args' = <<items, Swap(items, i, j)>>
    /\ stA' = State(args'[1])
    /\ stB' = State(args'[2])
    /\ phase' = "built"
    /\ UNCHANGED <<grammar, first_sets, follow_sets, calls, ret, TableVars, ParseVars>>

(***************************************************************************)
(* ParseNode and Parser.__call__ (parser/parser.py)                        *)
(***************************************************************************)
ParseNode(token, children) == [token |-> token, children |-> children]

None == [none |-> TRUE]

\* ParseTable.__getitem__(key)
TableGet(key) == IF key \in DOMAIN action_table THEN action_table[key] ELSE <<"err">>

\* ParseTable.goto(state, token)
Goto(state, token) ==
    IF <<state, token>> \in DOMAIN goto_table THEN goto_table[<<state, token>>] ELSE -1

\* the tokens an input is made of: the grammar's symbols and one foreign token
InputTokens == Elems(grammar.terminals) \cup Elems(grammar.nonterminals) \cup {"?"}

Inputs == UNION {[1..n -> InputTokens] : n \in 0..MaxInputLen}

\* Parser.__call__(string), line 27
CallParser ==
    /\ phase = "ready"
    /\ \E s \in Inputs : /\ Len(s) + Len(parked.input) <= MaxInputLen
                         /\ input' = s /\ string' = s
    /\ stack' = << <<None, 0>> >>
    /\ phase' = "parsing"
    /\ UNCHANGED <<grammar, first_sets, follow_sets, calls, ret, TableVars, result, trail,
                   StateVars, parked>>

\* lines 30-33
CurState == stack[Len(stack)][2]
CurToken == IF Len(string) > 0 THEN string[1] ELSE "$"
CurAction == TableGet(<<CurState, CurToken>>)

\* what the steps of the loop depend on: the state ids on the stack and the
\* unconsumed input.  The loop is deterministic, so once it is back in a
\* configuration it has been in, it repeats the steps in between forever.
Config == <<[k \in DOMAIN stack |-> stack[k][2]], string>>

\* LastN with the popped entries in pop order, top first
LastNTopFirst(lst, n) ==
    LET m == IF n = 0 \/ n >= Len(lst) THEN Len(lst) ELSE n
    IN  [k \in 1..m |-> lst[Len(lst) - k + 1]]

\* lst[-n:] of Python
LastN(lst, n) == IF n = 0 \/ n >= Len(lst) THEN lst ELSE SubSeq(lst, Len(lst) - n + 1, Len(lst))

\* lst[:-n] of Python
DropLastN(lst, n) == IF n = 0 \/ n >= Len(lst) THEN <<>> ELSE SubSeq(lst, 1, Len(lst) - n)

\* Shift with the state the engine is in pushed, not the target of the shift
ShiftStays ==
    /\ phase = "parsing" /\ Config \notin trail /\ CurAction[1] = "shft"
    /\ trail' = trail \cup {Config}
    /\ stack' = Append(stack, <<ParseNode(CurToken, <<>>), CurState>>)
    /\ string' = IF Len(string) > 0 THEN Tail(string) ELSE string
    /\ UNCHANGED <<grammar, first_sets, follow_sets, calls, ret, phase, TableVars,
                   input, result, StateVars, parked>>

\* lines 35-41
Shift ==
    /\ phase = "parsing" /\ Config \notin trail /\ CurAction[1] = "shft"
    /\ trail' = trail \cup {Config}
    /\ LET goto == CurAction[2]
           new_node == ParseNode(CurToken, <<>>)
       IN  stack' = Append(stack, <<new_node, goto>>)
    /\ string' = IF Len(string) > 0 THEN Tail(string) ELSE string
    /\ UNCHANGED <<grammar, first_sets, follow_sets, calls, ret, phase, TableVars,
                   input, result, StateVars, parked>>

\* lines 43-52; an IndexError leaves the call by an exception
Reduce ==
    /\ phase = "parsing" /\ Config \notin trail /\ CurAction[1] = "red"
    /\ trail' = trail \cup {Config}
    /\ LET head == CurAction[2]
           body_length == CurAction[3]
           popped == LastN(stack, body_length)
           children == [k \in DOMAIN popped |-> popped[k][1]]
           rest == DropLastN(stack, body_length)
           new_node == ParseNode(head, children)
       IN  IF Len(rest) = 0
           THEN phase' = "crash" /\ stack' = rest
           ELSE LET entry == TableGet(<<rest[Len(rest)][2], head>>)
                IN  IF Len(entry) < 2
                    THEN phase' = "crash" /\ stack' = rest
                    ELSE phase' = phase /\ stack' = Append(rest, <<new_node, entry[2]>>)
    /\ UNCHANGED <<grammar, first_sets, follow_sets, calls, ret, TableVars,
                   input, string, result, StateVars, parked>>

\* lines 54-55
Accept ==
    /\ phase = "parsing" /\ Config \notin trail /\ CurAction[1] = "acc"
    /\ IF Len(stack) < 2
       THEN phase' = "crash" /\ result' = result
       ELSE phase' = "acc" /\ result' = ParseNode(grammar.start_symbol, <<stack[2][1]>>)
    /\ UNCHANGED <<grammar, first_sets, follow_sets, calls, ret, TableVars,
                   input, string, stack, trail, StateVars, parked>>

\* lines 57-58
Error ==
    /\ phase = "parsing" /\ Config \notin trail
    /\ CurAction[1] \notin {"shft", "red", "acc"}
    /\ phase' = "err"
    /\ result' = "Error"
    /\ UNCHANGED <<grammar, first_sets, follow_sets, calls, ret, TableVars,
                   input, string, stack, trail, StateVars, parked>>

\* the while True loop is back in a configuration of this call: it never returns
Loops ==
    /\ phase = "parsing" /\ Config \in trail
    /\ phase' = "loops"
    /\ UNCHANGED <<grammar, first_sets, follow_sets, calls, ret, TableVars,
                   input, string, stack, result, trail, StateVars, parked>>

Empty == <<>>

Init ==
    /\ \E lines \in GrammarFiles : grammar = ReadFile(lines)
    /\ first_sets = Empty /\ follow_sets = Empty
    /\ calls = << Frame("traverse", grammar.start_symbol, <<>>,
                        OrderedSetOfString(grammar.start_symbol)) >>
    /\ ret = <<>>
    /\ phase = "ff"
    /\ states = <<>> /\ state_ids = <<>> /\ goto_table = Empty /\ action_table = Empty
    /\ input = <<>> /\ string = <<>> /\ stack = <<>> /\ result = <<>> /\ trail = {}
    /\ args = <<>> /\ stA = <<>> /\ stB = <<>>
    /\ parked = [phase |-> "ready", input |-> <<>>, string |-> <<>>, stack |-> <<>>,
                 result |-> <<>>, trail |-> {}]

Next == TraverseStep \/ FirstStep \/ FollowStep \/ ListStep \/ BuildTable
        \/ ConstructStates
        \/ CallParser \/ Shift \/ Reduce \/ Accept \/ Error \/ Loops

Spec == Init /\ [][Next]_vars

\* one step of the FIRST/FOLLOW computation, one step of Parser.__call__
FirstFollowStep == TraverseStep \/ FirstStep \/ FollowStep \/ ListStep
ParseStep == Shift \/ Reduce \/ Accept \/ Error \/ Loops

\* the invocation of Parser.__call__ that is running
Running == [phase |-> phase, input |-> input, string |-> string, stack |-> stack,
            result |-> result, trail |-> trail]

\* SwitchInvocation with the stack an attribute of the Parser, not a local of
\* the invocation
SwitchSharedStack ==
    /\ phase \in {"ready", "parsing", "acc", "err", "crash", "loops"}
    /\ parked' = Running
    /\ phase' = parked.phase /\ input' = parked.input /\ string' = parked.string
    /\ stack' = stack /\ result' = parked.result /\ trail' = parked.trail
    /\ UNCHANGED <<grammar, first_sets, follow_sets, calls, ret, TableVars, StateVars>>

\* the scheduler takes the running invocation of Parser.__call__ off the
\* processor and puts the other one on: string, stack and the nodes are locals
\* of the invocation (lines 26-27) and go with it
SwitchInvocation ==
    /\ phase \in {"ready", "parsing", "acc", "err", "crash", "loops"}
    /\ parked' = Running
    /\ phase' = parked.phase /\ input' = parked.input /\ string' = parked.string
    /\ stack' = parked.stack /\ result' = parked.result /\ trail' = parked.trail
    /\ UNCHANGED <<grammar, first_sets, follow_sets, calls, ret, TableVars, StateVars>>

\* two invocations of Parser.__call__ on one Parser, their steps interleaved
NextConcurrent == TraverseStep \/ FirstStep \/ FollowStep \/ ListStep \/ BuildTable
                  \/ CallParser \/ Shift \/ Reduce \/ Accept \/ Error \/ Loops
                  \/ SwitchInvocation

SpecConcurrent == Init /\ [][NextConcurrent]_vars

\* the interpreter keeps executing a computation that has a next step
SpecFair == Spec /\ WF_vars(FirstFollowStep) /\ WF_vars(ParseStep)

(***************************************************************************)
(* Reference definitions the properties are stated with                    *)
(***************************************************************************)
RECURSIVE Leaves(_)
\* the labels of the leaves of a tree, left to right
Leaves(node) ==
    IF node.children = <<>> THEN <<node.token>>
    ELSE Concat([k \in DOMAIN node.children |-> Leaves(node.children[k])])

Symbols == Elems(grammar.terminals) \cup Elems(grammar.nonterminals)

RulesOf(X) == {r \in Elems(grammar.rules) : r.head = X}

RECURSIVE NullableFrom(_)
NullableFrom(N) ==
    LET M == N \cup {r.head : r \in {q \in Elems(grammar.rules) :
                                       \A k \in DOMAIN q.body : q.body[k] \in N}}
    IN  IF M = N THEN N ELSE NullableFrom(M)

\* the symbols that derive the empty string; the marker "ε" is one of them
Nullable == NullableFrom({"ε"})

RECURSIVE FirstOfSeq(_, _)
\* FIRST of a symbol sequence, given FIRST of the symbols (spec 4.1)
FirstOfSeq(F, beta) ==
    IF beta = <<>> THEN {"ε"}
    ELSE IF "ε" \in F[Head(beta)]
         THEN (F[Head(beta)] \ {"ε"}) \cup FirstOfSeq(F, Tail(beta))
         ELSE F[Head(beta)]

RECURSIVE RefFirstFrom(_)
RefFirstFrom(F) ==
    LET G == [X \in Symbols |->
                IF IsTerminal(X) THEN {X}
                ELSE F[X] \cup UNION {FirstOfSeq(F, r.body) : r \in RulesOf(X)}]
    IN  IF G = F THEN F ELSE RefFirstFrom(G)

\* FIRST as spec 4.1 defines it: the least solution
RefFirst == RefFirstFrom([X \in Symbols |-> IF IsTerminal(X) THEN {X} ELSE {}])

\* the occurrences of X in rule bodies, as <<rule, position>>
Occurrences(X) ==
    UNION { {<<r, k>> : k \in {j \in DOMAIN r.body : r.body[j] = X}} :
            r \in Elems(grammar.rules) }

RECURSIVE RefFollowFrom(_)
RefFollowFrom(W) ==
    LET V == [X \in Elems(grammar.nonterminals) |->
                W[X] \cup UNION { LET beta == SubSeq(o[1].body, o[2] + 1, Len(o[1].body))
                                      fb == FirstOfSeq(RefFirst, beta)
                                  IN  (fb \ {"ε"}) \cup
                                      (IF "ε" \in fb THEN W[o[1].head] ELSE {}) :
                                  o \in Occurrences(X) }]
    IN  IF V = W THEN W ELSE RefFollowFrom(V)

\* FOLLOW as spec 4.1 defines it: the least solution with "$" in FOLLOW(start)
RefFollow ==
    RefFollowFrom([X \in Elems(grammar.nonterminals) |->
                     IF X = grammar.start_symbol THEN {"$"} ELSE {}])

(***************************************************************************)
(* Properties                                                              *)
(***************************************************************************)

\* C1: whenever Parser.__call__ accepts, the leaves of the returned tree, left
\* to right, are exactly the input token sequence, and no input is left over.
C1_RoundTrip ==
    (phase = "acc") => (Leaves(result) = input /\ string = <<>>)

ExprTree ==
    ParseNode("S", <<
        ParseNode("E", <<
            ParseNode("E", << ParseNode("T", << ParseNode("id", <<>>) >>) >>),
            ParseNode("+", <<>>),
            ParseNode("T", << ParseNode("id", <<>>) >>) >>) >>)

\* C2: with the grammar S -> E, E -> E + T, E -> T, T -> id the call on
\* (id, +, id) can only end in accept with the tree S(E(E(T(id)), +, T(id))),
\* the call on (id, +) can only end in failure with the value "Error" and no
\* tree, and the call on (+, id) never leaves its first configuration (state 0
\* alone on the stack, nothing consumed), where the lookup on "+" finds no entry.
C2_Example ==
    (grammar.rules = ExprGrammar /\ phase \in {"parsing", "acc", "err", "crash", "loops"}) =>
        /\ (input = <<"id", "+", "id">> /\ phase # "parsing") =>
               (phase = "acc" /\ result = ExprTree)
        /\ (input = <<"id", "+">> /\ phase # "parsing") =>
               (phase = "err" /\ result = "Error")
        /\ (input = <<"+", "id">>) =>
               /\ phase \in {"parsing", "err"}
               /\ stack = << <<None, 0>> >> /\ string = input
               /\ CurAction[1] = "err"

C2_Witness ==
    /\ grammar.rules = ExprGrammar /\ input = <<"id", "+", "id">>
    /\ phase = "acc" /\ result = ExprTree

\* C3: no step of Parser.__call__ ends in an IndexError (empty stack after a
\* reduce, a missing goto entry after a reduce, no node to accept), and a
\* failed call has returned the failure value "Error" and nothing else.
C3_NoCrash ==
    /\ phase # "crash"
    /\ (phase = "err") => (result = "Error")

\* a call that failed after at least one reduce
C3_Witness ==
    /\ phase = "err" /\ result = "Error"
    /\ \E k \in 2..Len(stack) : stack[k][1].children # <<>>

\* C4: when the token at the input cursor is not a terminal of the grammar,
\* the action lookup finds no entry (so the call fails there and the token is
\* not shifted).
C4_NonTerminalTokenFails ==
    (phase = "parsing" /\ ~IsTerminal(CurToken)) => (CurAction[1] = "err")

\* C5: two State objects constructed from the same set of items, given in two
\* orders, are equal under State.__eq__ and have the same State.__hash__.
C5_StateIdentity ==
    (phase = "built" /\ Elems(args[1]) = Elems(args[2])) =>
        (StateEq(stA, stB) /\ StateHash(stA) = StateHash(stB))

\* C6: a FIRST set that _find_first_from_nonterminal_list returns for a symbol
\* sequence (a rule body in _find_first_set, the rest of a body in
\* _find_follow_set) contains the epsilon marker only if every symbol of the
\* sequence can derive the empty string.
C6_FirstOfSequence ==
    /\ (phase = "ff" /\ Top.fn = "first" /\ Top.pc = "gotList" /\ Contains(ret, "ε")) =>
           (\A k \in DOMAIN Top.rules[Top.ri].body : Top.rules[Top.ri].body[k] \in Nullable)
    /\ (phase = "ff" /\ Top.fn = "follow" /\ Top.pc = "gotRest" /\ Contains(ret, "ε")) =>
           (LET body == Top.rules[Top.ri].body
            IN  \A k \in (Index(body, Top.token) + 1)..Len(body) : body[k] \in Nullable)

\* C7: after construction, for every nonterminal X with a stored FOLLOW set,
\* other than the start symbol, follow_sets[X] is as a set the least solution
\* of the FOLLOW equations of spec 4.1, every occurrence of X in every body
\* counted.
C7_FollowSets ==
    (phase = "ffdone") =>
        (\A X \in DOMAIN follow_sets \ {grammar.start_symbol} :
            Elems(follow_sets[X]) = RefFollow[X])

\* C8: the FIRST/FOLLOW computation of Grammar.__init__ eventually returns.
C8_FirstFollowReturns == <>(phase = "ffdone")

\* C9: every call of Parser.__call__ eventually returns, with a tree or with
\* the failure value.
C9_ParseReturns == (phase = "parsing") ~> (phase \in {"acc", "err"})

\* C10: constructing a State from exactly the items of a State the builder
\* produced gives a State with the same set of items.
C10_ClosureIdempotent ==
    (phase = "built" /\ args[1] \in Elems(states)) => (Elems(stA) = Elems(args[1]))

\* a rebuilt State in which closure had an item with a nonterminal after the dot
C10_Witness ==
    /\ phase = "built" /\ args[1] \in Elems(states) /\ Elems(stA) = Elems(args[1])
    /\ \E k \in DOMAIN stA : /\ stA[k].position < Len(stA[k].body)
                             /\ ~IsTerminal(stA[k].body[stA[k].position + 1])
    /\ Len(stA) >= 4

RECURSIVE ReachableFrom(_)
ReachableFrom(R) ==
    LET Q == R \cup UNION { Elems(r.body) : r \in {q \in Elems(grammar.rules) : q.head \in R} }
    IN  IF Q = R THEN R ELSE ReachableFrom(Q)

\* the symbols reachable from the start symbol through rule bodies
Reachable == ReachableFrom({grammar.start_symbol})

\* the phases in which the parse table has been built
TableBuilt == phase \in {"ready", "built", "parsing", "acc", "err", "crash", "loops"}

\* C11: neither the construction of the Grammar nor that of the parse table is
\* left by an exception; once the Grammar is constructed a nonterminal has a
\* first_sets entry and a follow_sets entry exactly when it is reachable from
\* the start symbol, and in the built table no goto entry is keyed by an
\* unreachable nonterminal.
C11_UnreachableNonFatal ==
    /\ phase \notin {"ffcrash", "tablecrash"}
    /\ (phase # "ff") =>
           \A N \in Elems(grammar.nonterminals) :
               /\ (N \in DOMAIN first_sets) <=> (N \in Reachable)
               /\ (N \in DOMAIN follow_sets) <=> (N \in Reachable)
    /\ TableBuilt =>
           \A N \in Elems(grammar.nonterminals) \ Reachable :
               \A id \in 0..(Len(state_ids) - 1) : Goto(id, N) = -1

RECURSIVE RunAlone(_, _, _)
\* how Parser.__call__ ends when nothing else runs: the loop of lines 29-58 from
\* the stack stk and the unconsumed input str, seen the configurations so far
RunAlone(stk, str, seen) ==
    LET state == stk[Len(stk)][2]
        token == IF Len(str) > 0 THEN str[1] ELSE "$"
        action == TableGet(<<state, token>>)
        config == <<[k \in DOMAIN stk |-> stk[k][2]], str>>
        rest == DropLastN(stk, action[3])
        popped == LastN(stk, action[3])
        new_node == ParseNode(action[2], [k \in DOMAIN popped |-> popped[k][1]])
        entry == TableGet(<<rest[Len(rest)][2], action[2]>>)
    IN  IF config \in seen THEN [phase |-> "loops", result |-> <<>>]
        ELSE IF action[1] = "shft"
        THEN Strict({RunAlone(s, r, n) :
                 <<s, r, n>> \in {<<Append(stk, <<ParseNode(token, <<>>), action[2]>>),
                                    IF Len(str) > 0 THEN Tail(str) ELSE str,
                                    seen \cup {config}>>}})
        ELSE IF action[1] = "red"
        THEN IF Len(rest) = 0 \/ Len(entry) < 2
             THEN [phase |-> "crash", result |-> <<>>]
             ELSE Strict({RunAlone(s, r, n) :
                      <<s, r, n>> \in {<<Append(rest, <<new_node, entry[2]>>), str,
                                         seen \cup {config}>>}})
        ELSE IF action[1] = "acc"
        THEN IF Len(stk) < 2 THEN [phase |-> "crash", result |-> <<>>]
             ELSE [phase |-> "acc", result |-> ParseNode(grammar.start_symbol, <<stk[2][1]>>)]
        ELSE [phase |-> "err", result |-> "Error"]

\* the outcome of Parser.__call__(s) run alone
Alone(s) == RunAlone(<< <<None, 0>> >>, s, {})

\* an invocation that is over has ended as it ends alone
EndsAsAlone(c) ==
    (c.phase \in {"acc", "err", "crash", "loops"}) =>
        (c.phase = Alone(c.input).phase /\ c.result = Alone(c.input).result)

\* C12: with two invocations of Parser.__call__ on one Parser interleaved step
\* by step, no step of an invocation changes the tables or the FIRST/FOLLOW
\* sets, a step of the running invocation changes nothing of the other one, and
\* each invocation ends with the result it has when it runs alone.
C12_ConcurrentParses ==
    /\ [](EndsAsAlone(Running) /\ EndsAsAlone(parked))
    /\ [][(CallParser \/ ParseStep \/ SwitchInvocation) =>
            UNCHANGED <<grammar, first_sets, follow_sets, TableVars>>]_vars
    /\ [][(CallParser \/ ParseStep) => (parked' = parked)]_vars

\* one invocation has returned a tree while the other one, on another input, is
\* in the middle of its parse
C12_Witness ==
    /\ phase = "acc" /\ result = Alone(input).result
    /\ parked.phase = "parsing" /\ Len(parked.stack) >= 2 /\ Len(parked.string) >= 1
    /\ parked.input # input

\* C13: the terminals and the nonterminals of a grammar that _read_file has read
\* are disjoint, and once the Grammar is constructed follow_sets[start_symbol]
\* contains the end marker "$".
C13_DisjointAndEndMarker ==
    /\ Elems(grammar.terminals) \cap Elems(grammar.nonterminals) = {}
    /\ (phase \notin {"ff", "ffcrash"}) =>
           /\ grammar.start_symbol \in DOMAIN follow_sets
           /\ Contains(follow_sets[grammar.start_symbol], "$")

\* a constructed Grammar with a nonterminal in a rule body, which line 87 took
\* out of the terminals
C13_Witness ==
    /\ phase = "ffdone"
    /\ Contains(follow_sets[grammar.start_symbol], "$")
    /\ \E r \in Elems(grammar.rules) : \E k \in DOMAIN r.body :
           /\ Contains(grammar.nonterminals, r.body[k])
           /\ ~Contains(grammar.terminals, r.body[k])

(***************************************************************************)
(* The reduce step of Parser.__call__ (lines 43-52) as a function of the   *)
(* stack and of the action reduce(head, n) that the table holds: the       *)
(* stacks of up to MaxStackDepth entries and every n from 0 on.            *)
(***************************************************************************)
MaxStackDepth == 3

\* the stacks of depth d: the sentinel and d - 1 entries of a leaf and a state id
StacksOfDepth(d) ==
    { << <<None, 0>> >> \o s :
        s \in [1..(d - 1) -> {<<ParseNode(t, <<>>), i>> : t \in {"id", "+"}, i \in 1..2}] }

\* a table whose action in every state on "$" is reduce(E, n), with a goto
\* entry on E in every state
ReduceTables(n) ==
    [ goto_table |-> [key \in (0..2) \X {"E"} |-> (key[1] % 2) + 1],
      action_table |-> [key \in (0..2) \X {"E", "$"} |->
                          IF key[2] = "$" THEN <<"red", "E", n>>
                          ELSE <<"shft", (key[1] % 2) + 1>>] ]

\* Parser.__call__ at line 30 with some stack, the input consumed
InitReduce ==
    /\ grammar = ReadFile(ExprGrammar)
    /\ first_sets = Empty /\ follow_sets = Empty /\ calls = <<>> /\ ret = <<>>
    /\ phase = "parsing"
    /\ states = <<>> /\ state_ids = <<>>
    /\ \E d \in 1..MaxStackDepth : \E n \in 0..(d - 1) :
           /\ stack \in StacksOfDepth(d)
           /\ goto_table = ReduceTables(n).goto_table
           /\ action_table = ReduceTables(n).action_table
    /\ input = <<>> /\ string = <<>> /\ result = <<>> /\ trail = {}
    /\ args = <<>> /\ stA = <<>> /\ stB = <<>>
    /\ parked = [phase |-> "ready", input |-> <<>>, string |-> <<>>, stack |-> <<>>,
                 result |-> <<>>, trail |-> {}]

NextReduce == Reduce

SpecReduce == InitReduce /\ [][NextReduce]_vars

\* what reduce(head, n) is to do to a stack of more than n entries
ReduceContract ==
    LET head == CurAction[2]
        n == CurAction[3]
        d == Len(stack)
    IN  (n \in 0..(d - 1)) =>
            /\ phase' = "parsing"
            /\ Len(stack') = d - n + 1
            /\ \A k \in 1..(d - n) : stack'[k] = stack[k]
            /\ stack'[d - n + 1][1] = ParseNode(head, [k \in 1..n |-> stack[d - n + k][1]])
            /\ stack'[d - n + 1][2] = Goto(stack[d - n][2], head)
            /\ string' = string

C14_ReduceStepNonEmpty == [][(Reduce /\ CurAction[3] >= 1) => ReduceContract]_vars

\* C15: in a built table no two state ids denote states with the same set of
\* items (a goto result with the items of a discovered state, in whatever
\* order, has been given that state's id).
C15_CanonicalMinimality ==
    TableBuilt =>
        \A i, j \in DOMAIN state_ids :
            (Elems(state_ids[i]) = Elems(state_ids[j])) => (i = j)

\* the State st holds, for every item with a nonterminal N after the dot and
\* every rule headed by N, the item of that rule with the dot at 0 and the
\* lookahead follow_sets[N]
Closed(st) ==
    \A k \in DOMAIN st :
        (st[k].position < Len(st[k].body)
            /\ Contains(grammar.nonterminals, st[k].body[st[k].position + 1])) =>
        LET N == st[k].body[st[k].position + 1]
        IN  /\ N \in DOMAIN follow_sets
            /\ \A r \in RulesOf(N) : Contains(st, StateItem(r, follow_sets[N], 0))

\* every State of a built table is closed
ClosedWhenBuilt == TableBuilt => \A k \in DOMAIN state_ids : Closed(state_ids[k])

\* C16: the construction of a State by the table builder is not left by an
\* exception, and every State the builder has constructed is closed: for every
\* item with a nonterminal N after the dot it holds the item (rule, dot 0,
\* lookahead FOLLOW(N) of the Grammar) of every rule headed by N.
C16_StatesClosed == phase # "tablecrash" /\ ClosedWhenBuilt

\* the item with the dot moved over one symbol
Advance(item) == [item EXCEPT !.position = @ + 1]

\* the items of the set I advanced over the symbol x
Kernel(I, x) ==
    { Advance(it) : it \in {jt \in I : jt.position < Len(jt.body)
                                        /\ jt.body[jt.position + 1] = x} }

RECURSIVE ClosureFrom(_)
ClosureFrom(I) ==
    LET J == I \cup UNION { {StateItem(r, follow_sets[it.body[it.position + 1]], 0) :
                               r \in RulesOf(it.body[it.position + 1])} :
                            it \in {jt \in I : jt.position < Len(jt.body)
                                       /\ Contains(grammar.nonterminals,
                                                   jt.body[jt.position + 1])} }
    IN  IF J = I THEN I ELSE ClosureFrom(J)

\* the closure of a set of items (spec 4.2): the least closed set that has them
RefClosure(I) == ClosureFrom(I)

\* the symbols in the order _generate_table tries them
TableTokens == OrderedSetUnion(grammar.terminals, grammar.nonterminals)

\* when the state with id j > 0 was discovered: the step (id of the explored
\* state, place of the symbol) of the first goto entry that leads to it
Discovered(j) ==
    { n \in 0..(Len(state_ids) * Len(TableTokens) - 1) :
        Goto(n \div Len(TableTokens), TableTokens[(n % Len(TableTokens)) + 1]) = j }

\* what _generate_table leaves behind (table.py lines 157-184)
CanonicalCollection ==
    /\ state_ids[1][1] = StateItem(GetRulesByHead(grammar.start_symbol)[1],
                                   follow_sets[grammar.start_symbol], 0)
    /\ Elems(state_ids[1]) = RefClosure({state_ids[1][1]})
    /\ states = state_ids
    /\ \A i \in DOMAIN state_ids : \A k \in DOMAIN TableTokens :
           LET K == Kernel(Elems(state_ids[i]), TableTokens[k])
               key == <<i - 1, TableTokens[k]>>
           IN  IF K = {} THEN key \notin DOMAIN goto_table
               ELSE /\ key \in DOMAIN goto_table
                    /\ goto_table[key] \in 0..(Len(state_ids) - 1)
                    /\ Elems(state_ids[goto_table[key] + 1]) = RefClosure(K)
    /\ DOMAIN goto_table \subseteq (0..(Len(state_ids) - 1)) \X Elems(TableTokens)
    /\ \A j \in 1..(Len(state_ids) - 1) : Discovered(j) # {}
    /\ \A j \in 1..(Len(state_ids) - 2) :
           \E n \in Discovered(j) : \A m \in Discovered(j + 1) : n < m

\* C17: when the table has been built, and from then on since nothing changes
\* the grammar or the table, state 0 is the closure of the item of the first rule
\* of the start symbol with the dot at 0 and the lookahead FOLLOW(start); the
\* states list holds the state with id k at place k; every state id above 0
\* was discovered by some goto and the ids are in the order of discovery of a
\* first-in first-out exploration; and for every state s and every symbol x
\* there is a goto entry for (id(s), x) exactly when the goto result is not
\* empty, and it is the id of a state with the items of that result.
C17_CanonicalCollection ==
    /\ [](phase = "ready" => CanonicalCollection)
    /\ [][TableBuilt => UNCHANGED <<grammar, follow_sets, TableVars>>]_vars

\* a built table in which two goto entries lead to one state and a state has a
\* symbol without a goto entry
C17_Witness ==
    /\ TableBuilt /\ Len(state_ids) >= 5 /\ states = state_ids
    /\ \E a, b \in DOMAIN goto_table : a # b /\ goto_table[a] = goto_table[b]
    /\ \E i \in 0..(Len(state_ids) - 1) : Goto(i, "$") = -1

\* the item writes an action for the symbol x in the state with the id
Writes(id, item, x) ==
    IF item.position = Len(item.body)
    THEN IF item.head = grammar.start_symbol THEN x = "$" ELSE Contains(item.follow, x)
    ELSE item.body[item.position + 1] = x /\ <<id, x>> \in DOMAIN goto_table

\* the action it writes
Written(id, item, x) ==
    IF item.position = Len(item.body)
    THEN IF item.head = grammar.start_symbol THEN <<"acc">>
         ELSE <<"red", item.head, Len(item.body)>>
    ELSE <<"shft", goto_table[<<id, x>>]>>

\* the places in the state with the id of the items that write an action for x
Writers(id, x) == { k \in DOMAIN state_ids[id + 1] : Writes(id, state_ids[id + 1][k], x) }

Last(S) == CHOOSE k \in S : \A m \in S : m <= k

\* C18: in a built table the entry for (state id, symbol) is the action of the
\* last item of the state, in the state's item order, that writes one for the
\* symbol: accept on "$" for a complete item of the start symbol, reduce(head,
\* body length) on every lookahead of another complete item, shift(goto
\* target) on the next symbol of an item when a goto is recorded for it; a key
\* that no item writes is absent, and reading it gives the error action.
C18_ActionTable ==
    TableBuilt =>
        /\ \A id \in 0..(Len(state_ids) - 1) : \A x \in Symbols \cup {"$"} :
               IF Writers(id, x) = {}
               THEN <<id, x>> \notin DOMAIN action_table /\ TableGet(<<id, x>>) = <<"err">>
               ELSE /\ <<id, x>> \in DOMAIN action_table
                    /\ action_table[<<id, x>>]
                         = Written(id, state_ids[id + 1][Last(Writers(id, x))], x)
        /\ DOMAIN action_table \subseteq (0..(Len(state_ids) - 1)) \X (Symbols \cup {"$"})

\* a built table with a key that two items write different actions for
C18_Witness ==
    /\ TableBuilt
    /\ \E id \in 0..(Len(state_ids) - 1) : \E x \in Symbols :
         \E k, m \in Writers(id, x) :
            /\ k < m
            /\ Written(id, state_ids[id + 1][k], x) # Written(id, state_ids[id + 1][m], x)
            /\ action_table[<<id, x>>] = Written(id, state_ids[id + 1][Last(Writers(id, x))], x)

\* in a built table an action entry keyed by a nonterminal is a shift to the
\* goto entry of the same key
NonterminalEntriesAreGotos ==
    TableBuilt =>
        \A key \in DOMAIN action_table :
            Contains(grammar.nonterminals, key[2]) =>
                /\ action_table[key][1] = "shft"
                /\ key \in DOMAIN goto_table
                /\ action_table[key][2] = goto_table[key]

\* the stack entry a reduce uncovers
Uncovered == stack[Len(stack) - CurAction[3]]

\* C19: the state that a reduce(head, n) pushes, read from the action table at
\* (uncovered top state, head), is goto_table[(uncovered top state, head)]:
\* every action entry keyed by a nonterminal is a shift to the goto entry of the
\* same key, and at every reduce that is taken the entry exists.
C19_GotoThroughActionTable ==
    /\ []NonterminalEntriesAreGotos
    /\ [][Reduce => /\ phase' = "parsing"
                    /\ <<Uncovered[2], CurAction[2]>> \in DOMAIN goto_table
                    /\ stack'[Len(stack')][2] = goto_table[<<Uncovered[2], CurAction[2]>>]]_vars

\* the engine has just reduced: the node on top has children and its state is
\* the goto of the state below on its label
C19_Witness ==
    /\ phase = "parsing" /\ Len(stack) >= 2
    /\ stack[Len(stack)][1].children # <<>>
    /\ stack[Len(stack)][2] = Goto(stack[Len(stack) - 1][2], stack[Len(stack)][1].token)

\* C20: in every state of a call of Parser.__call__ the stack is not empty, its
\* bottom entry is the sentinel (no node, state 0), every state id on it is the
\* id of a discovered state, and the state id of every entry above the bottom
\* is goto_table[(state id of the entry below, label of the entry's node)].
C20_StackInvariant ==
    (phase \in {"parsing", "acc", "err", "crash", "loops"}) =>
        /\ Len(stack) >= 1
        /\ stack[1] = <<None, 0>>
        /\ \A k \in DOMAIN stack : stack[k][2] \in 0..(Len(state_ids) - 1)
        /\ \A k \in 2..Len(stack) :
               /\ <<stack[k - 1][2], stack[k][1].token>> \in DOMAIN goto_table
               /\ stack[k][2] = goto_table[<<stack[k - 1][2], stack[k][1].token>>]

\* a stack of the sentinel, a node a reduce has made and a leaf shifted after it
C20_Witness ==
    /\ phase = "parsing" /\ Len(stack) >= 3
    /\ stack[1] = <<None, 0>>
    /\ stack[2][1].children # <<>>
    /\ stack[3][1].children = <<>>
    /\ stack[3][2] = goto_table[<<stack[2][2], stack[3][1].token>>]

====
